---- MODULE Spec2Model ----
(***************************************************************************)
(* Model of fullerite's NerveUWSGI collector                               *)
(* (src/fullerite/collector/nerve_uwsgi.go) and of the shared dropwizard   *)
(* parser core (src/fullerite/dropwizard/base_parser.go).                  *)
(*                                                                         *)
(* Go strings are TLA+ strings; a Go map is a TLA+ function and the order  *)
(* in which `range` visits its keys, which Go leaves unspecified, is an    *)
(* explicit permutation chosen nondeterministically.  A JSON value is a    *)
(* record [k, n, s, o]: k is the JSON kind ("num", "str", "null", "obj"),  *)
(* n the number of a "num", s the text of a "str", o the members of an     *)
(* "obj".  Numbers are integers (the float64 coercion keeps them).          *)
(***************************************************************************)
EXTENDS Integers, Sequences, FiniteSets, TLC

VARIABLES
    cfg,        \* nerveUWSGICollector fields set by Configure
    cycle,      \* how far Collect has got
    services,   \* services found by Collect in the nerve config
    pc,         \* position of each queryService goroutine
    schemaVer,  \* schemaVer returned by the primary queryEndpoint
    parser,     \* parser strategy dropwizard.Parse selected
    primary,    \* batch returned by dropwizard.Parse
    workers,    \* what tryFetchUWSGIWorkersStats returned
    metrics,    \* the goroutine's `metrics` slice
    sent,       \* index of the last element of `metrics` ranged over
    channel,    \* n.Channel(): records handed over and not yet received
    received,   \* records the consumer has taken, per service
    crashed,    \* an unrecovered panic has ended the process
    input,      \* argument of the function under test (function harnesses)
    output      \* its result

vars == <<cfg, cycle, services, pc, schemaVer, parser, primary, workers, metrics,
          sent, channel, received, crashed, input, output>>

collectorVars == <<cfg, cycle, services, pc, schemaVer, parser, primary, workers,
                   metrics, sent, channel, received, crashed>>

-----------------------------------------------------------------------------
(* Bounds of the model *)

MaxRollups == 3     \* rollup keys in one metric's mapping
MaxWorkers == 3     \* elements of a `workers` array
MaxServices == 2    \* services Collect finds in the nerve config
ChanCap == 1        \* capacity of the output channel

-----------------------------------------------------------------------------
(* Strings and maps *)

CharAt(s, i) == SubSeq(s, i, i)

Digits == {"0", "1", "2", "3", "4", "5", "6", "7", "8", "9"}

Lower == "abcdefghijklmnopqrstuvwxyz"
Upper == "ABCDEFGHIJKLMNOPQRSTUVWXYZ"

\* unicode.ToTitle on ASCII
ToTitle(c) ==
    IF \E i \in 1..Len(Lower) : CharAt(Lower, i) = c
    THEN CharAt(Upper, CHOOSE i \in 1..Len(Lower) : CharAt(Lower, i) = c)
    ELSE c

\* isSeparator of package strings: ASCII letters, digits and underscore are not
IsSeparator(c) ==
    ~(\/ \E i \in 1..Len(Lower) : c \in {CharAt(Lower, i), CharAt(Upper, i)}
      \/ c \in Digits
      \/ c = "_")

\* strings.Title: the letter that begins each word is mapped to its title case
RECURSIVE TitleFrom(_, _)
TitleFrom(s, i) ==
    IF i > Len(s) THEN ""
    ELSE (IF i = 1 \/ IsSeparator(CharAt(s, i - 1))
          THEN ToTitle(CharAt(s, i)) ELSE CharAt(s, i)) \o TitleFrom(s, i + 1)

Title(s) == TitleFrom(s, 1)

\* strings.Contains
Contains(s, sub) ==
    \E i \in 1..(Len(s) - Len(sub) + 1) : SubSeq(s, i, i + Len(sub) - 1) = sub

\* strings.Index(s, sub) == 0
HasPrefix(s, sub) ==
    Len(sub) <= Len(s) /\ SubSeq(s, 1, Len(sub)) = sub

\* every permutation of a finite set, as the orders `range` may visit it in
Orders(S) ==
    {f \in [1..Cardinality(S) -> S] : \A i, j \in 1..Cardinality(S) : f[i] = f[j] => i = j}

EmptyMap == [k \in {} |-> ""]

\* m with the entries of d written over it
Overwrite(m, d) ==
    [k \in DOMAIN m \cup DOMAIN d |-> IF k \in DOMAIN d THEN d[k] ELSE m[k]]

JNum(n) == [k |-> "num", n |-> n, s |-> "", o |-> EmptyMap]
JStr(s) == [k |-> "str", n |-> 0, s |-> s, o |-> EmptyMap]
JNull == [k |-> "null", n |-> 0, s |-> "", o |-> EmptyMap]
JObj(o) == [k |-> "obj", n |-> 0, s |-> "", o |-> o]

-----------------------------------------------------------------------------
(* package metric *)

Gauge == "gauge"
Counter == "counter"
CumulativeCounter == "cumcounter"

\* metric.New
New(name) == [Name |-> name, MetricType |-> Gauge, Value |-> 0, Dimensions |-> EmptyMap]

\* metric.WithValue
WithValue(name, value) == [New(name) EXCEPT !.Value = value]

\* Metric.AddDimension
AddDimension(m, name, value) ==
    [m EXCEPT !.Dimensions = Overwrite(m.Dimensions, [k \in {name} |-> value])]

\* metric.AddToAll
AddToAll(ms, dims) ==
    [i \in 1..Len(ms) |-> [ms[i] EXCEPT !.Dimensions = Overwrite(ms[i].Dimensions, dims)]]

-----------------------------------------------------------------------------
(* package dropwizard: base_parser.go *)

\* regexp.MatchString("m[0-9]+_rate", rollup): the pattern is not anchored
MatchRate(rollup) ==
    \E i \in 1..Len(rollup) : \E j \in (i + 1)..(Len(rollup) - 5) :
        /\ CharAt(rollup, i) = "m"
        /\ \A d \in (i + 1)..j : CharAt(rollup, d) \in Digits
        /\ SubSeq(rollup, j + 1, j + 5) = "_rate"

\* BaseParser.createMetricFromDatam: only a numeric value makes a record
createMetricFromDatam(rollup, value, metricName, metricType) ==
    LET m == AddDimension([New(metricName) EXCEPT !.MetricType = metricType],
                          "rollup", rollup)
    IN  IF value.k = "num"
        THEN [m |-> [m EXCEPT !.Value = value.n], ok |-> TRUE]
        ELSE [m |-> m, ok |-> FALSE]

\* the `dimensions` block of metricFromMap: a string is kept, anything else is "null"
DimsOf(obj) ==
    [d \in DOMAIN obj |-> IF obj[d].k = "str" THEN obj[d].s ELSE "null"]

\* the loop of metricFromMap over the rollups, visited in `order`
RECURSIVE metricFromMapLoop(_, _, _, _, _, _, _, _)
metricFromMapLoop(ccEnabled, metricMap, metricName, metricType, order, i, results, dims) ==
    IF i > Len(order)
    THEN [panic |-> FALSE, results |-> AddToAll(results, dims)]
    ELSE LET rollup == order[i]
             value == metricMap[rollup]
             matched == MatchRate(rollup)
             mName == IF ccEnabled /\ rollup # "value"
                      THEN metricName \o "." \o rollup ELSE metricName
             mType == IF ccEnabled /\ rollup # "value" /\ rollup = "count"
                      THEN CumulativeCounter ELSE metricType
             made == createMetricFromDatam(rollup, value, mName, mType)
         IN  IF rollup = "dimensions"
             THEN IF value.k # "obj"
                  \* value.(map[string]interface{}) without the comma-ok form panics
                  THEN [panic |-> TRUE, results |-> <<>>]
                  ELSE metricFromMapLoop(ccEnabled, metricMap, metricName, metricType,
                                         order, i + 1, results,
                                         Overwrite(dims, DimsOf(value.o)))
             ELSE IF ccEnabled /\ matched
             THEN metricFromMapLoop(ccEnabled, metricMap, metricName, metricType,
                                    order, i + 1, results, dims)
             ELSE metricFromMapLoop(ccEnabled, metricMap, metricName, metricType,
                                    order, i + 1,
                                    IF made.ok THEN Append(results, made.m) ELSE results,
                                    dims)

\* metricFromMap stamping each record with the dimensions seen when it is made
RECURSIVE stampAtCreationLoop(_, _, _, _, _, _, _, _)
stampAtCreationLoop(ccEnabled, metricMap, metricName, metricType, order, i, results, dims) ==
    IF i > Len(order)
    THEN [panic |-> FALSE, results |-> results]
    ELSE LET rollup == order[i]
             value == metricMap[rollup]
             mName == IF ccEnabled /\ rollup # "value"
                      THEN metricName \o "." \o rollup ELSE metricName
             mType == IF ccEnabled /\ rollup = "count" THEN CumulativeCounter ELSE metricType
             made == createMetricFromDatam(rollup, value, mName, mType)
         IN  IF rollup = "dimensions"
             THEN IF value.k # "obj"
                  THEN [panic |-> TRUE, results |-> <<>>]
                  ELSE stampAtCreationLoop(ccEnabled, metricMap, metricName, metricType,
                                           order, i + 1, results,
                                           Overwrite(dims, DimsOf(value.o)))
             ELSE stampAtCreationLoop(ccEnabled, metricMap, metricName, metricType,
                                      order, i + 1,
                                      IF made.ok /\ ~(ccEnabled /\ MatchRate(rollup))
                                      THEN results \o AddToAll(<<made.m>>, dims)
                                      ELSE results,
                                      dims)

metricFromMapStampAtCreation(ccEnabled, metricMap, metricName, metricType, order) ==
    stampAtCreationLoop(ccEnabled, metricMap, metricName, metricType, order, 1,
                        <<>>, EmptyMap)

\* BaseParser.metricFromMap
metricFromMap(ccEnabled, metricMap, metricName, metricType, order) ==
    metricFromMapLoop(ccEnabled, metricMap, metricName, metricType, order, 1,
                      <<>>, EmptyMap)

\* parseMapOfMap of the concrete parsers: metricFromMap for each metric of a family
RECURSIVE parseMapOfMapLoop(_, _, _, _, _, _, _)
parseMapOfMapLoop(ccEnabled, metricMap, metricType, nameOrder, rollupOrder, i, results) ==
    IF i > Len(nameOrder)
    THEN [panic |-> FALSE, results |-> results]
    ELSE LET name == nameOrder[i]
             got == metricFromMap(ccEnabled, metricMap[name], name, metricType,
                                  rollupOrder[name])
         IN  IF got.panic
             THEN [panic |-> TRUE, results |-> <<>>]
             ELSE parseMapOfMapLoop(ccEnabled, metricMap, metricType, nameOrder,
                                    rollupOrder, i + 1, results \o got.results)

parseMapOfMap(ccEnabled, metricMap, metricType, nameOrder, rollupOrder) ==
    parseMapOfMapLoop(ccEnabled, metricMap, metricType, nameOrder, rollupOrder, 1, <<>>)

\* the families in the order extractParsedMetric appends them, with the kind
\* and the `type` dimension it passes for each
Families == <<"gauges", "counters", "histograms", "meters", "timers">>
FamilyKind == [gauges |-> Gauge, counters |-> Counter, histograms |-> Gauge,
               meters |-> Gauge, timers |-> Gauge]
FamilyType == [gauges |-> "gauge", counters |-> "counter", histograms |-> "histogram",
               meters |-> "meter", timers |-> "timer"]

\* the appendIt closure of extractParsedMetric
appendIt(ccEnabled, results, ms, typeDimVal) ==
    results \o (IF ~ccEnabled THEN AddToAll(ms, [k \in {"type"} |-> typeDimVal]) ELSE ms)

\* extractParsedMetric: ord.names[f] and ord.rollups[f] are the visiting orders
RECURSIVE extractLoop(_, _, _, _, _)
extractLoop(ccEnabled, parsed, ord, i, results) ==
    IF i > Len(Families)
    THEN [panic |-> FALSE, results |-> results]
    ELSE LET f == Families[i]
             got == parseMapOfMap(ccEnabled, parsed[f], FamilyKind[f],
                                  ord.names[f], ord.rollups[f])
         IN  IF got.panic
             THEN [panic |-> TRUE, results |-> <<>>]
             ELSE extractLoop(ccEnabled, parsed, ord, i + 1,
                              appendIt(ccEnabled, results, got.results, FamilyType[f]))

extractParsedMetric(ccEnabled, parsed, ord) == extractLoop(ccEnabled, parsed, ord, 1, <<>>)

\* the parser dropwizard.Parse selects for a schema tag
ParserFor(tag) ==
    IF tag = "uwsgi.1.0" \/ tag = "uwsgi.1.1" THEN "uwsgi"
    ELSE IF tag = "java-1.1" THEN "java"
    ELSE "legacy"

\* dropwizard.Parse: raw.json says whether the body unmarshals into a Format
Parse(raw, tag, ccEnabled, ord) ==
    IF ~raw.json
    THEN [panic |-> FALSE, err |-> TRUE, results |-> <<>>]
    ELSE LET got == extractParsedMetric(ccEnabled, raw.doc, ord)
         IN  [panic |-> got.panic, err |-> FALSE, results |-> got.results]

-----------------------------------------------------------------------------
(* nerve_uwsgi.go: the workers-stats document *)

\* a registry that does not count the collector's own worker
InitialRegistryNoSelf == [k \in {"IdleWorkers", "BusyWorkers"} |-> 0]

\* the two counters parseUWSGIWorkersStats seeds the registry with
InitialRegistry == [k \in {"IdleWorkers", "BusyWorkers"} |->
                        IF k = "BusyWorkers" THEN 1 ELSE 0]

\* the counter an element's status is counted under
WorkerMetricName(status) ==
    Title(IF HasPrefix(status, "sig") THEN "sig" ELSE status) \o "Workers"

\* the loop of parseUWSGIWorkersStats over the `workers` array
RECURSIVE countWorkers(_, _, _)
countWorkers(elems, i, registry) ==
    IF i > Len(elems)
    THEN [err |-> FALSE, registry |-> registry]
    ELSE LET worker == elems[i]
             metricName == WorkerMetricName(worker.status)
             seen == IF metricName \in DOMAIN registry THEN registry[metricName] ELSE 0
         IN  IF worker.k # "status"
             \* not a map, or `status` missing or not a string
             THEN [err |-> TRUE, registry |-> registry]
             ELSE countWorkers(elems, i + 1,
                               Overwrite(registry, [k \in {metricName} |-> seen + 1]))

\* the registry parseUWSGIWorkersStats builds: raw.json says whether the body
\* unmarshals into a JSON object, raw.workers is its `workers` member
WorkersRegistry(raw) ==
    IF ~raw.json \/ raw.workers.k # "array"
    THEN [err |-> TRUE, registry |-> InitialRegistry]
    ELSE countWorkers(raw.workers.elems, 1, InitialRegistry)

\* parseUWSGIWorkersStats: one record per registry key, ranged over in `order`
parseUWSGIWorkersStats(raw, order) ==
    LET reg == WorkersRegistry(raw)
    IN  IF reg.err
        THEN [err |-> TRUE, results |-> <<>>]
        ELSE [err |-> FALSE,
              results |-> [i \in 1..Len(order) |->
                              WithValue(order[i], reg.registry[order[i]])]]

\* the orders in which the final loop may range over the registry
RegistryOrders(raw) ==
    IF WorkersRegistry(raw).err THEN {<<>>}
    ELSE Orders(DOMAIN WorkersRegistry(raw).registry)

-----------------------------------------------------------------------------
(* nerve_uwsgi.go: one queryService call *)

AllServices == {"abc", "abc123", "xabc"}

\* the port the nerve config gives each service
ServicePort == [abc |-> 9000, abc123 |-> 9001, xabc |-> 9002]

DigitChars == "0123456789"

\* strconv.Itoa of a port
RECURSIVE Itoa(_)
Itoa(n) ==
    IF n < 10 THEN CharAt(DigitChars, n + 1)
    ELSE Itoa(n \div 10) \o CharAt(DigitChars, (n % 10) + 1)

\* queryEndpoint on the reply rsp of the service: a transport error or timeout
\* (neterr), a status other than 200 and a body that cannot be read are errors;
\* an absent Metrics-Schema header reads as "default"
queryEndpoint(rsp) ==
    IF rsp.neterr \/ rsp.StatusCode # 200 \/ rsp.readErr
    THEN [err |-> TRUE, txt |-> rsp.body, schemaVer |-> ""]
    ELSE [err |-> FALSE, txt |-> rsp.body,
          schemaVer |-> IF rsp.schema = "" THEN "default" ELSE rsp.schema]

\* nerveUWSGICollector.serviceInWhitelist
serviceInWhitelist(config, service) ==
    \E s \in config.servicesWhitelist : s = service

\* nerveUWSGICollector.serviceInWorkersStatsBlacklist
serviceInWorkersStatsBlacklist(config, service) ==
    \E s \in config.workersStatsBlacklist : s = service

\* the condition under which queryService fetches the workers stats
WorkersStatsWanted(config, tag, service) ==
    /\ Contains(tag, "uwsgi")
    /\ config.workersStatsEnabled
    /\ ~serviceInWorkersStatsBlacklist(config, service)

NoWorkersStats == [tried |-> FALSE, nil |-> TRUE, metrics |-> <<>>]

\* nerveUWSGICollector.tryFetchUWSGIWorkersStats: nil on any failure
tryFetchUWSGIWorkersStats(rsp, order) ==
    LET q == queryEndpoint(rsp)
        got == parseUWSGIWorkersStats(q.txt, order)
    IN  IF q.err \/ got.err
        THEN [tried |-> TRUE, nil |-> TRUE, metrics |-> <<>>]
        ELSE [tried |-> TRUE, nil |-> FALSE, metrics |-> got.results]

\* queryService dropping the batch when the workers stats could not be fetched
mergeOrFail(ms, ws) ==
    IF ws.nil
    THEN [panic |-> FALSE, metrics |-> <<>>]
    ELSE IF Len(ws.metrics) > Len(ms)
    THEN [panic |-> TRUE, metrics |-> ms]
    ELSE [panic |-> FALSE,
          metrics |-> [k \in 1..Len(ms) |->
                          IF k <= Len(ws.metrics) THEN ws.metrics[k] ELSE ms[k]]]

\* the merge of queryService: `metrics[k] = v` for every index k of the workers
\* stats, which panics with an index out of range past the end of `metrics`
mergeWorkersStats(ms, ws) ==
    IF ws.nil
    THEN [panic |-> FALSE, metrics |-> ms]
    ELSE IF Len(ws.metrics) > Len(ms)
    THEN [panic |-> TRUE, metrics |-> ms]
    ELSE [panic |-> FALSE,
          metrics |-> [k \in 1..Len(ms) |->
                          IF k <= Len(ws.metrics) THEN ws.metrics[k] ELSE ms[k]]]

\* the service and port dimensions queryService adds to the whole batch
tagBatch(ms, serviceName, port) ==
    AddToAll(ms, [d \in {"service", "port"} |->
                     IF d = "service" THEN serviceName ELSE Itoa(port)])

\* baseCollector.ContainsBlacklistedDimension
ContainsBlacklistedDimension(config, dims) ==
    \E b \in config.blacklistedDimensions :
        b[1] \in DOMAIN dims /\ dims[b[1]] = b[2]

-----------------------------------------------------------------------------
(* The collector at rest: the state the function harnesses keep it in *)

NoBatch == [s \in AllServices |-> <<>>]

CollectorIdle ==
    /\ cfg = [servicesWhitelist |-> {}, workersStatsEnabled |-> FALSE,
              workersStatsBlacklist |-> {}, blacklistedDimensions |-> {}]
    /\ cycle = "start"
    /\ services = {}
    /\ pc = [s \in AllServices |-> "idle"]
    /\ schemaVer = [s \in AllServices |-> ""]
    /\ parser = [s \in AllServices |-> ""]
    /\ primary = NoBatch
    /\ workers = [s \in AllServices |-> NoWorkersStats]
    /\ metrics = NoBatch
    /\ sent = [s \in AllServices |-> 0]
    /\ channel = <<>>
    /\ received = NoBatch
    /\ crashed = FALSE

NotRun == [done |-> FALSE]

-----------------------------------------------------------------------------
(* Harness of the parser core: metricFromMap and extractParsedMetric *)

\* the rollup keys of the metric mappings; numbers are in tenths, so that the
\* rate 0.2 is 2, the count 5 is 50 and the percentile 10 is 100
RollupValue == [count |-> 50, value |-> 70, p98 |-> 100, m1_rate |-> 2,
                m15_rate |-> 3, sum1_rate |-> 4, mean_rate |-> 6]

RollupNames == DOMAIN RollupValue

\* the `dimensions` members a service may send: objects, and a value that is none
DimensionValues ==
    {JObj([d \in {"a", "b"} |-> IF d = "a" THEN JStr("x") ELSE JNull]),
     JObj([d \in {"rollup"} |-> JStr("x")]),
     JObj([d \in {"rollup"} |-> JNull]),
     JObj([d \in {"a"} |-> JNum(1)]),
     JStr("a=x")}

\* what a key of a metric mapping may hold
LeavesOf(r) ==
    IF r = "dimensions" THEN DimensionValues
    ELSE {JNum(RollupValue[r]), JStr("n/a")}

\* the functions g on DOMAIN sets with g[d] \in sets[d]
RECURSIVE ChoicesOf(_)
ChoicesOf(sets) ==
    IF DOMAIN sets = {} THEN {EmptyMap}
    ELSE LET d == CHOOSE d \in DOMAIN sets : TRUE
             rest == ChoicesOf([e \in DOMAIN sets \ {d} |-> sets[e]])
         IN  {Overwrite(g, [k \in {d} |-> v]) : g \in rest, v \in sets[d]}

\* the functions g on D with g[d] \in S(d)
Choices(D, S(_)) == ChoicesOf([d \in D |-> S(d)])

\* every metric mapping of at most MaxRollups keys
MetricMaps ==
    UNION {Choices(K, LeavesOf) :
             K \in {K \in SUBSET (RollupNames \cup {"dimensions"}) :
                      Cardinality(K) <= MaxRollups}}

MetricFromMapInputs ==
    {[ccEnabled |-> cc, metricMap |-> m, metricName |-> "foo", metricType |-> t] :
        cc \in BOOLEAN, t \in {Gauge, Counter}, m \in MetricMaps}

InitMetricFromMap ==
    /\ CollectorIdle
    /\ input \in MetricFromMapInputs
    /\ output = NotRun

\* one call of BaseParser.metricFromMap, ranging over the mapping in some order
RunMetricFromMap ==
    /\ ~output.done
    /\ \E order \in Orders(DOMAIN input.metricMap) :
          output' = [done |-> TRUE, order |-> order,
                     res |-> metricFromMap(input.ccEnabled, input.metricMap,
                                           input.metricName, input.metricType, order)]
    /\ UNCHANGED <<input, collectorVars>>

NextMetricFromMap == RunMetricFromMap

SpecMetricFromMap == InitMetricFromMap /\ [][NextMetricFromMap]_vars

-----------------------------------------------------------------------------
(* Harness of extractParsedMetric *)

\* the metric each family holds in the documents of the harness
MetricOf == [gauges |-> "g", counters |-> "c", histograms |-> "h",
             meters |-> "m", timers |-> "t"]

FamilyNames == {Families[i] : i \in 1..Len(Families)}

\* numeric mappings over `count` and `value`
PlainMaps ==
    {m \in MetricMaps : /\ DOMAIN m # {}
                        /\ DOMAIN m \subseteq {"count", "value"}
                        /\ \A r \in DOMAIN m : m[r].k = "num"}

\* a family is empty or holds its one metric
FamiliesOf(f) == {EmptyMap} \cup {[n \in {MetricOf[f]} |-> m] : m \in PlainMaps}

Formats == Choices(FamilyNames, FamiliesOf)

\* the visiting orders of a family: of its metrics, and of each metric's rollups
NameOrders(fam) == Orders(DOMAIN fam)
RollupOrders(fam) == Choices(DOMAIN fam, LAMBDA n : Orders(DOMAIN fam[n]))

\* the visiting orders of a document
FormatOrders(doc) ==
    [names : Choices(DOMAIN doc, LAMBDA f : NameOrders(doc[f])),
     rollups : Choices(DOMAIN doc, LAMBDA f : RollupOrders(doc[f]))]

ExtractInputs == {[ccEnabled |-> cc, parsed |-> doc] : cc \in BOOLEAN, doc \in Formats}

InitExtract ==
    /\ CollectorIdle
    /\ input \in ExtractInputs
    /\ output = NotRun

\* one call of extractParsedMetric
RunExtract ==
    /\ ~output.done
    /\ \E ord \in FormatOrders(input.parsed) :
          output' = [done |-> TRUE,
                     res |-> extractParsedMetric(input.ccEnabled, input.parsed, ord)]
    /\ UNCHANGED <<input, collectorVars>>

NextExtract == RunExtract

SpecExtract == InitExtract /\ [][NextExtract]_vars

-----------------------------------------------------------------------------
(* Harness of parseUWSGIWorkersStats *)

Statuses == {"idle", "busy", "sig30", "sig", "pause", "Idle", "u sig"}

\* an element of `workers`: not an object, an object with no string `status`,
\* or an object with one
Elements ==
    {[k |-> "notmap", status |-> ""], [k |-> "nostatus", status |-> ""]}
        \cup {[k |-> "status", status |-> st] : st \in Statuses}

Arrays == UNION {[1..n -> Elements] : n \in 0..MaxWorkers}

\* the bodies of the workers-stats endpoint: not a JSON object, an object with
\* no `workers`, one whose `workers` is no array, one with an array
WorkersBodies ==
    {[json |-> FALSE, workers |-> [k |-> "absent", elems |-> <<>>]],
     [json |-> TRUE, workers |-> [k |-> "absent", elems |-> <<>>]],
     [json |-> TRUE, workers |-> [k |-> "notarray", elems |-> <<>>]]}
        \cup {[json |-> TRUE, workers |-> [k |-> "array", elems |-> a]] : a \in Arrays}

InitWorkers ==
    /\ CollectorIdle
    /\ input \in {[raw |-> b] : b \in WorkersBodies}
    /\ output = NotRun

\* one call of parseUWSGIWorkersStats
RunParseWorkers ==
    /\ ~output.done
    /\ \E order \in RegistryOrders(input.raw) :
          output' = [done |-> TRUE, res |-> parseUWSGIWorkersStats(input.raw, order)]
    /\ UNCHANGED <<input, collectorVars>>

NextWorkers == RunParseWorkers

SpecWorkers == InitWorkers /\ [][NextWorkers]_vars

-----------------------------------------------------------------------------
(* The collection cycle: Collect, its queryService goroutines, the consumer *)

EmptyFormat == [f \in FamilyNames |-> EmptyMap]

\* the document with the one metric `name` in family f
DocOf(f, name, m) == Overwrite(EmptyFormat, [k \in {f} |-> [n \in {name} |-> m]])

\* a body that is no JSON document
InvalidBody == [json |-> FALSE, doc |-> EmptyFormat]

\* {"counters": {"hits": {"count": 3}}}
HitsBody == [json |-> TRUE,
             doc |-> DocOf("counters", "hits", [r \in {"count"} |-> JNum(30)])]

\* {"timers": {"foo": {"count": 5, "m1_rate": 0.2, "p98": 10}}}
FooBody == [json |-> TRUE,
            doc |-> DocOf("timers", "foo",
                          [r \in {"count", "m1_rate", "p98"} |-> JNum(RollupValue[r])])]

\* {"meters": {"req": {"count": 5, "dimensions": "a=x"}}}
BadDimensionsBody ==
    [json |-> TRUE,
     doc |-> DocOf("meters", "req",
                   [r \in {"count", "dimensions"} |->
                       IF r = "count" THEN JNum(50) ELSE JStr("a=x")])]

Reply(tag, body) ==
    [neterr |-> FALSE, StatusCode |-> 200, schema |-> tag, body |-> body, readErr |-> FALSE]

\* what the metrics endpoint of a service may answer
PrimaryReplies(tags, bodies) ==
    {[Reply("", InvalidBody) EXCEPT !.neterr = TRUE],
     [Reply("", InvalidBody) EXCEPT !.StatusCode = 500]}
        \cup {Reply(tag, body) : tag \in tags, body \in bodies}

AllTags == {"uwsgi.1.1", "uwsgi.2.0", "java-1.1", ""}
AllBodies == {InvalidBody, HitsBody, FooBody, BadDimensionsBody}

WorkersBody(k, elems) == [json |-> TRUE, workers |-> [k |-> k, elems |-> elems]]
StatusElement(st) == [k |-> "status", status |-> st]

\* what the status/uwsgi endpoint of a service may answer
WorkersReplies ==
    {[Reply("", WorkersBody("absent", <<>>)) EXCEPT !.neterr = TRUE],
     [Reply("", WorkersBody("absent", <<>>)) EXCEPT !.StatusCode = 500],
     Reply("", [WorkersBody("absent", <<>>) EXCEPT !.json = FALSE]),
     Reply("", WorkersBody("absent", <<>>)),
     Reply("", WorkersBody("notarray", <<>>)),
     Reply("", WorkersBody("array", <<[k |-> "notmap", status |-> ""]>>)),
     Reply("", WorkersBody("array", <<StatusElement("idle"), [k |-> "nostatus", status |-> ""]>>)),
     Reply("", WorkersBody("array", <<>>)),
     Reply("", WorkersBody("array", <<StatusElement("idle"), StatusElement("sig30"),
                                      StatusElement("idle")>>))}

\* the configurations Configure may leave the collector in
Configs ==
    [servicesWhitelist : {{}, {"abc"}},
     workersStatsEnabled : BOOLEAN,
     workersStatsBlacklist : {{}, {"abc*"}, {"abc"}},
     blacklistedDimensions : {{}, {<<"rollup", "p98">>}}]

\* the configurations of the cycles with several services
CycleConfigs ==
    {c \in Configs : /\ c.servicesWhitelist = {}
                     /\ c.workersStatsEnabled
                     /\ c.workersStatsBlacklist = {}}

CycleTags == {"uwsgi.1.1", ""}

\* the workers-stats replies of the cycles with several services: a transport
\* error and {"workers": []}
CycleWorkersReplies ==
    {r \in WorkersReplies : r.neterr \/ (r.body.json /\ r.body.workers.k = "array"
                                            /\ r.body.workers.elems = <<>>)}

CollectorStarts(configs) ==
    /\ cfg \in configs
    /\ cycle = "start"
    /\ services = {}
    /\ pc = [s \in AllServices |-> "idle"]
    /\ schemaVer = [s \in AllServices |-> ""]
    /\ parser = [s \in AllServices |-> ""]
    /\ primary = NoBatch
    /\ workers = [s \in AllServices |-> NoWorkersStats]
    /\ metrics = NoBatch
    /\ sent = [s \in AllServices |-> 0]
    /\ channel = <<>>
    /\ received = NoBatch
    /\ crashed = FALSE
    /\ input = NotRun
    /\ output = NotRun

Init == CollectorStarts(CycleConfigs)

\* Collect: the cycle ends when the nerve config cannot be read or parsed;
\* otherwise one goroutine is started for each of its services
Collect(limit) ==
    /\ cycle = "start"
    /\ \/ /\ cycle' = "aborted"
          /\ UNCHANGED <<services, pc>>
       \/ \E found \in SUBSET AllServices :
             /\ Cardinality(found) <= limit
             /\ cycle' = "spawned"
             /\ services' = found
             /\ pc' = [s \in AllServices |-> IF s \in found THEN "query" ELSE "idle"]
    /\ UNCHANGED <<cfg, schemaVer, parser, primary, workers, metrics, sent, channel,
                   received, crashed, input, output>>

\* queryService up to the workers-stats fetch: the GET of the metrics endpoint,
\* dropwizard.Parse, and, when no workers stats are wanted, the tagging
QueryPrimary(s, replies) ==
    /\ ~crashed
    /\ pc[s] = "query"
    /\ \E rsp \in replies :
          LET q == queryEndpoint(rsp)
          IN  IF q.err
              THEN /\ pc' = [pc EXCEPT ![s] = "failed"]
                   /\ UNCHANGED <<schemaVer, parser, primary, metrics, crashed>>
              ELSE \E ord \in FormatOrders(q.txt.doc) :
                      LET got == Parse(q.txt, q.schemaVer, serviceInWhitelist(cfg, s), ord)
                      IN  /\ schemaVer' = [schemaVer EXCEPT ![s] = q.schemaVer]
                          /\ parser' = [parser EXCEPT ![s] = ParserFor(q.schemaVer)]
                          /\ IF got.panic
                             THEN /\ pc' = [pc EXCEPT ![s] = "panic_parse"]
                                  /\ crashed' = TRUE
                                  /\ UNCHANGED <<primary, metrics>>
                             ELSE IF got.err
                             THEN /\ pc' = [pc EXCEPT ![s] = "failed"]
                                  /\ UNCHANGED <<primary, metrics, crashed>>
                             ELSE /\ primary' = [primary EXCEPT ![s] = got.results]
                                  /\ UNCHANGED crashed
                                  /\ IF WorkersStatsWanted(cfg, q.schemaVer, s)
                                     THEN /\ pc' = [pc EXCEPT ![s] = "workers"]
                                          /\ metrics' = [metrics EXCEPT ![s] = got.results]
                                     ELSE /\ pc' = [pc EXCEPT ![s] = "send"]
                                          /\ metrics' = [metrics EXCEPT ![s] =
                                                tagBatch(got.results, s, ServicePort[s])]
    /\ UNCHANGED <<cfg, cycle, services, workers, sent, channel, received, input, output>>

\* queryService from the workers-stats fetch to the tagging of the batch
QueryWorkers(s, replies) ==
    /\ ~crashed
    /\ pc[s] = "workers"
    /\ \E rsp \in replies : \E order \in RegistryOrders(rsp.body) :
          LET ws == tryFetchUWSGIWorkersStats(rsp, order)
              merged == mergeWorkersStats(metrics[s], ws)
          IN  /\ workers' = [workers EXCEPT ![s] = ws]
              /\ IF merged.panic
                 THEN /\ pc' = [pc EXCEPT ![s] = "panic_merge"]
                      /\ crashed' = TRUE
                      /\ UNCHANGED metrics
                 ELSE /\ pc' = [pc EXCEPT ![s] = "send"]
                      /\ metrics' = [metrics EXCEPT ![s] =
                            tagBatch(merged.metrics, s, ServicePort[s])]
                      /\ UNCHANGED crashed
    /\ UNCHANGED <<cfg, cycle, services, schemaVer, parser, primary, sent, channel,
                   received, input, output>>

\* one turn of the sending loop: a record with a blacklisted dimension is
\* passed over, any other is sent, which blocks while the channel is full
Send(s) ==
    /\ ~crashed
    /\ pc[s] = "send"
    /\ sent[s] < Len(metrics[s])
    /\ LET m == metrics[s][sent[s] + 1]
       IN  IF ContainsBlacklistedDimension(cfg, m.Dimensions)
           THEN UNCHANGED channel
           ELSE /\ Len(channel) < ChanCap
                /\ channel' = Append(channel, m)
    /\ sent' = [sent EXCEPT ![s] = sent[s] + 1]
    /\ UNCHANGED <<cfg, cycle, services, pc, schemaVer, parser, primary, workers,
                   metrics, received, crashed, input, output>>

\* the sending loop is over and queryService returns
Return(s) ==
    /\ ~crashed
    /\ pc[s] = "send"
    /\ sent[s] = Len(metrics[s])
    /\ pc' = [pc EXCEPT ![s] = "done"]
    /\ UNCHANGED <<cfg, cycle, services, schemaVer, parser, primary, workers, metrics,
                   sent, channel, received, crashed, input, output>>

\* the consumer takes the next record from the channel
Receive ==
    /\ ~crashed
    /\ channel # <<>>
    /\ LET m == Head(channel)
           s == m.Dimensions["service"]
       IN  received' = [received EXCEPT ![s] = Append(received[s], m)]
    /\ channel' = Tail(channel)
    /\ UNCHANGED <<cfg, cycle, services, pc, schemaVer, parser, primary, workers,
                   metrics, sent, crashed, input, output>>

\* a cycle of up to MaxServices concurrent goroutines
Next ==
    \/ Collect(MaxServices)
    \/ \E s \in AllServices : QueryPrimary(s, PrimaryReplies(CycleTags, AllBodies))
    \/ \E s \in AllServices : QueryWorkers(s, CycleWorkersReplies)
    \/ \E s \in AllServices : Send(s)
    \/ \E s \in AllServices : Return(s)
    \/ Receive

Spec == Init /\ [][Next]_vars

\* a cycle of one service, under every configuration, tag and reply
InitQuery == CollectorStarts(Configs)

NextQuery ==
    \/ Collect(1)
    \/ \E s \in AllServices : QueryPrimary(s, PrimaryReplies(AllTags, AllBodies))
    \/ \E s \in AllServices : QueryWorkers(s, WorkersReplies)
    \/ \E s \in AllServices : Send(s)
    \/ \E s \in AllServices : Return(s)
    \/ Receive

SpecQuery == InitQuery /\ [][NextQuery]_vars

-----------------------------------------------------------------------------
(* Claims about the parser core *)

ResultsOf(out) == {out.res.results[i] : i \in 1..Len(out.res.results)}

\* r is `m`, one or more digits, `_rate`, and nothing else
ExactRate(r) ==
    /\ Len(r) >= 7
    /\ CharAt(r, 1) = "m"
    /\ \A d \in 2..(Len(r) - 5) : CharAt(r, d) \in Digits
    /\ SubSeq(r, Len(r) - 4, Len(r)) = "_rate"

NumericRollups(m) == {r \in DOMAIN m \ {"dimensions"} : m[r].k = "num"}

\* the timer of the example: {count: 5, m1_rate: 0.2, p98: 10}
FooTimer == [r \in {"count", "m1_rate", "p98"} |-> JNum(RollupValue[r])]

\* C4: with cumulative-counter mode active a numeric rollup r of metric m makes
\* no record iff r is exactly m<digits>_rate; any other rollup makes one record,
\* named m.r (m for `value`), of kind CumulativeCounter for `count` and of the
\* family's kind otherwise; timer foo {count, m1_rate, p98} gives exactly
\* foo.count (CumulativeCounter) and foo.p98 (Gauge).
C4_CumulativeRewrite ==
    (output.done /\ input.ccEnabled /\ ~output.res.panic) =>
        /\ \A r \in NumericRollups(input.metricMap) :
              LET name == IF r = "value" THEN input.metricName
                          ELSE input.metricName \o "." \o r
                  kind == IF r = "count" THEN CumulativeCounter ELSE input.metricType
                  made == {m \in ResultsOf(output) : m.Name = name}
              IN  IF ExactRate(r) THEN made = {}
                  ELSE /\ Cardinality(made) = 1
                       /\ \A m \in made : /\ m.MetricType = kind
                                          /\ m.Value = input.metricMap[r].n
        /\ (input.metricMap = FooTimer /\ input.metricType = Gauge) =>
              {<<m.Name, m.MetricType, m.Value>> : m \in ResultsOf(output)}
                  = {<<"foo.count", CumulativeCounter, 50>>, <<"foo.p98", Gauge, 100>>}

\* the family a record of the harness documents belongs to
FamilyOfRecord(m) == CHOOSE f \in FamilyNames : HasPrefix(m.Name, MetricOf[f])

\* C5: every record of a family carries the `type` dimension naming the family,
\* except that in cumulative-counter mode the meter and timer records carry
\* none; gauge, counter and histogram records carry it in both modes.
C5_TypeStamp ==
    (output.done /\ ~output.res.panic) =>
        \A m \in ResultsOf(output) :
            LET f == FamilyOfRecord(m)
            IN  IF input.ccEnabled /\ f \in {"meters", "timers"}
                THEN "type" \notin DOMAIN m.Dimensions
                ELSE /\ "type" \in DOMAIN m.Dimensions
                     /\ m.Dimensions["type"] = FamilyType[f]

\* the metric mapping has a `dimensions` object and metricFromMap has returned
HasDimensionsObject ==
    /\ output.done
    /\ "dimensions" \in DOMAIN input.metricMap
    /\ input.metricMap["dimensions"].k = "obj"

\* the rollup key a record's value came from (every rollup has its own value)
RollupOfValue(m) ==
    CHOOSE r \in NumericRollups(input.metricMap) : input.metricMap[r].n = m.Value

\* the `dimensions` key makes no record, and every record carries every entry
\* of the object, a non-string value as "null", whatever the visiting order
DimensionsMerged ==
    LET obj == input.metricMap["dimensions"].o
    IN  /\ ~output.res.panic
        /\ \A m \in ResultsOf(output) :
              /\ \E r \in NumericRollups(input.metricMap) : input.metricMap[r].n = m.Value
              /\ \A d \in DOMAIN obj :
                    /\ d \in DOMAIN m.Dimensions
                    /\ m.Dimensions[d] = IF obj[d].k = "str" THEN obj[d].s ELSE "null"
        /\ Len(output.res.results) <= Cardinality(NumericRollups(input.metricMap))

-----------------------------------------------------------------------------
(* Claims about the workers-stats document *)

\* every element of the `workers` array has a string `status`
AllHaveStatus ==
    /\ input.raw.json
    /\ input.raw.workers.k = "array"
    /\ \A i \in 1..Len(input.raw.workers.elems) : input.raw.workers.elems[i].k = "status"

\* the counter names of the statuses of the harness: `sig...` collapses to
\* `sig`, the first letter of each word is capitalised, `Workers` is appended
CounterOf(status) ==
    CASE status = "idle" -> "IdleWorkers"
      [] status = "Idle" -> "IdleWorkers"
      [] status = "busy" -> "BusyWorkers"
      [] status = "sig" -> "SigWorkers"
      [] status = "sig30" -> "SigWorkers"
      [] status = "pause" -> "PauseWorkers"
      [] status = "u sig" -> "U SigWorkers"

\* the elements counted under a counter name
CountedAs(name) ==
    {i \in 1..Len(input.raw.workers.elems) :
        CounterOf(input.raw.workers.elems[i].status) = name}

\* C8: for a `workers` array whose elements all have a string status the result
\* holds exactly one record per counter name; IdleWorkers is the number of idle
\* elements (0 when there are none), BusyWorkers is 1 plus the number of busy
\* elements, any other counter is present only if an element has its status
\* and is the number of such elements; [idle, sig30, idle] gives IdleWorkers=2,
\* BusyWorkers=1, SigWorkers=1.
C8_WorkerCounters ==
    (output.done /\ AllHaveStatus) =>
        LET rs == output.res.results
            names == {rs[i].Name : i \in 1..Len(rs)}
        IN  /\ ~output.res.err
            /\ \A i, j \in 1..Len(rs) : rs[i].Name = rs[j].Name => i = j
            /\ names = {"IdleWorkers", "BusyWorkers"}
                          \cup {CounterOf(input.raw.workers.elems[i].status) :
                                  i \in 1..Len(input.raw.workers.elems)}
            /\ \A i \in 1..Len(rs) :
                  rs[i].Value = Cardinality(CountedAs(rs[i].Name))
                                   + (IF rs[i].Name = "BusyWorkers" THEN 1 ELSE 0)
            /\ (/\ Len(input.raw.workers.elems) = 3
                /\ \A i \in 1..3 : input.raw.workers.elems[i].status
                                      = <<"idle", "sig30", "idle">>[i])
                  => {<<rs[i].Name, rs[i].Value>> : i \in 1..Len(rs)}
                        = {<<"IdleWorkers", 2>>, <<"BusyWorkers", 1>>, <<"SigWorkers", 1>>}

\* the array [idle, sig30, idle] of the example has been parsed
C8_Witness ==
    /\ output.done
    /\ AllHaveStatus
    /\ Len(input.raw.workers.elems) = 3
    /\ \A i \in 1..3 : input.raw.workers.elems[i].status = <<"idle", "sig30", "idle">>[i]
    /\ Len(output.res.results) = 3

-----------------------------------------------------------------------------
(* Claims about queryService and the cycle *)

\* the port dimension of each service
PortText == [abc |-> "9000", abc123 |-> "9001", xabc |-> "9002"]

\* a record with the service and port dimensions of service s
Tagged(m, s) ==
    [m EXCEPT !.Dimensions =
        Overwrite(m.Dimensions,
                  [d \in {"service", "port"} |-> IF d = "service" THEN s ELSE PortText[s]])]

\* a record the dimension blacklist lets through
Emittable(m) ==
    \A b \in cfg.blacklistedDimensions :
        ~(b[1] \in DOMAIN m.Dimensions /\ m.Dimensions[b[1]] = b[2])

FromService(s, m) == m.Dimensions["service"] = s

\* the records of service s handed to the channel so far, in order
Handed(s) == received[s] \o SelectSeq(channel, LAMBDA m : FromService(s, m))

IsPrefix(a, b) == Len(a) <= Len(b) /\ \A i \in 1..Len(a) : a[i] = b[i]

\* the workers-stats fetch of service s was made and failed
SecondaryFailed(s) == workers[s].tried /\ workers[s].nil

\* C2: once the primary fetch and parse have succeeded, a failed workers-stats
\* fetch contributes nothing and does not fail the batch: every primary record
\* is tagged with service and port and emitted as with the fetch disabled.
C2_SecondaryFailureKeepsPrimary ==
    \A s \in services :
        SecondaryFailed(s) =>
            /\ pc[s] \in {"send", "done"}
            /\ Len(metrics[s]) = Len(primary[s])
            /\ \A i \in 1..Len(primary[s]) : metrics[s][i] = Tagged(primary[s][i], s)
            /\ IsPrefix(Handed(s), SelectSeq(metrics[s], Emittable))
            /\ pc[s] = "done" =>
                  Handed(s) = SelectSeq([i \in 1..Len(primary[s]) |-> Tagged(primary[s][i], s)],
                                        Emittable)

\* a service whose workers-stats fetch failed has emitted a batch of several records
C2_Witness ==
    \E s \in services :
        /\ SecondaryFailed(s)
        /\ pc[s] = "done"
        /\ Len(primary[s]) >= 2
        /\ Len(received[s]) = Len(primary[s])

\* C3: when the workers-stats fetch succeeds the batch holds every worker-stats
\* record and every primary record whose name is not that of a worker-stats
\* record, whatever the sizes of the two.
C3_MergedByName ==
    \A s \in services :
        (workers[s].tried /\ ~workers[s].nil) =>
            LET ws == {workers[s].metrics[i] : i \in 1..Len(workers[s].metrics)}
                kept == {primary[s][i] : i \in 1..Len(primary[s])}
            IN  /\ pc[s] \in {"send", "done"}
                /\ {metrics[s][i] : i \in 1..Len(metrics[s])}
                      = {Tagged(w, s) : w \in ws}
                           \cup {Tagged(m, s) :
                                   m \in {m \in kept : \A w \in ws : w.Name # m.Name}}

\* a pattern ending in `*` matches the names that start with the text before it
WildcardMatch(pattern, service) ==
    IF pattern # "" /\ CharAt(pattern, Len(pattern)) = "*"
    THEN HasPrefix(service, SubSeq(pattern, 1, Len(pattern) - 1))
    ELSE pattern = service

\* primary fetch and parse of s succeeded with a uwsgi tag and the fetch enabled
SecondaryDue(s) ==
    /\ pc[s] \in {"workers", "send", "done", "panic_merge"}
    /\ Contains(schemaVer[s], "uwsgi")
    /\ cfg.workersStatsEnabled

SecondaryStarted(s) == pc[s] = "workers" \/ workers[s].tried

\* C6: the workers-stats blacklist matches a service iff one of its patterns
\* does, a pattern ending in `*` matching by prefix; the workers-stats fetch is
\* suppressed for exactly the matched services.
C6_WildcardBlacklist ==
    \A s \in services :
        LET matched == \E p \in cfg.workersStatsBlacklist : WildcardMatch(p, s)
        IN  /\ serviceInWorkersStatsBlacklist(cfg, s) <=> matched
            /\ SecondaryDue(s) => (~SecondaryStarted(s) <=> matched)

\* C7: Parse selects the uwsgi parser for every tag containing "uwsgi", the
\* java parser for "java-1.1", the legacy parser otherwise; so every response
\* whose tag starts the workers-stats fetch is parsed by the uwsgi parser.
C7_DispatchOnTag ==
    \A s \in services :
        parser[s] # "" =>
            /\ parser[s] = IF Contains(schemaVer[s], "uwsgi") THEN "uwsgi"
                           ELSE IF schemaVer[s] = "java-1.1" THEN "java"
                           ELSE "legacy"
            /\ SecondaryStarted(s) => parser[s] = "uwsgi"

\* C1: the failure of one service's fetch or parse, a `dimensions` member that
\* is no object included, never stops a sibling: a goroutine whose own fetch
\* and parse succeeded is never left short of its return by the failure of
\* another.
C1_FailureIsolated ==
    \A t \in services : \A s \in services \ {t} :
        (pc[t] \in {"failed", "panic_parse"} /\ pc[s] \in {"workers", "send"})
            => ~(crashed /\ pc[t] = "panic_parse")

\* C10: the records of a parsed batch that carry no blacklisted dimension are
\* handed to the channel once each, in order, none left out: a goroutine that
\* can take no further step has handed over all of them.
C10_HandedOverOnce ==
    \A s \in services :
        pc[s] \in {"send", "done"} =>
            /\ IsPrefix(Handed(s), SelectSeq(metrics[s], Emittable))
            /\ (pc[s] = "done" \/ crashed) => Handed(s) = SelectSeq(metrics[s], Emittable)

====
